---- MODULE Spec2Model ----
(***************************************************************************)
(* A model of snippet-manager-go: the HTTP shell (mux, JWT gate, handlers)  *)
(* over the PostgreSQL storage layer.  Every request is served by its own   *)
(* worker (goroutine); the workers share only the relational store, whose   *)
(* READ COMMITTED transactions are modelled statement by statement: writes  *)
(* of an open transaction are pending (visible to it alone) until COMMIT,   *)
(* and row / unique-index locks make a statement wait.                      *)
(***************************************************************************)
EXTENDS Naturals, Integers, Sequences, FiniteSets, TLC

\* ---------------------------------------------------------------- bounds
\* Longest tag list a request body carries.
MaxTags == 2
\* Last instant of the clock (time.Now() reads it; Tick advances it).
MaxClock == 2
\* Requests taken in one run of concurrent workers.
MaxRequests == 2

\* ------------------------------------------------------------ value sets
Workers == {1, 2}
SnippetIds == {"s1", "s2"}
TagNames == {"a", "b"}
UserIds == {"u1", "u2"}
FolderIds == {"f1", "f2", "f3"}
Titles == {"t1", "t2"}
NULL == "null"

\* uuid.New() for a tag row: ids never collide with a live one.
TagIds == 1 .. (Cardinality(TagNames) + Cardinality(Workers))

RECURSIVE SeqsUpTo(_, _)
SeqsUpTo(S, n) ==
  IF n = 0 THEN {<<>>}
  ELSE LET shorter == SeqsUpTo(S, n - 1)
       IN shorter \cup {Append(q, x) : q \in {r \in shorter : Len(r) = n - 1}, x \in S}

TagLists == SeqsUpTo(TagNames, MaxTags)

Range(q) == {q[k] : k \in 1 .. Len(q)}

\* ------------------------------------------------------------- variables
VARIABLES
  users,         \* table users: rows [id, username, email, password]
  snippets,      \* table snippets (committed rows)
  tags,          \* table tags: rows [id, name]
  snippet_tags,  \* table snippet_tags: rows [snippet_id, tag_id]
  folders,       \* table folders
  usedIds,       \* uuids handed out by uuid.New() so far
  clock,         \* the wall clock
  pc,            \* per worker: where its request stands
  req,           \* per worker: the request and what the shell did with it
  arg,           \* per worker: the arguments of the storage call
  loc,           \* per worker: locals of the storage call (loop index, tagID, result)
  tx,            \* per worker: its open transaction (pending writes, locks)
  served         \* requests taken so far (counted where a run is budgeted)

dbVars == <<users, snippets, tags, snippet_tags, folders>>
vars == <<users, snippets, tags, snippet_tags, folders, usedIds, clock, pc, req, arg, loc, tx, served>>

\* ----------------------------------------------------------- transactions
\* An open transaction: rows it inserted, updated or deleted, not yet committed,
\* and the locks it holds until COMMIT or ROLLBACK.
NoTx ==
  [insSnip |-> {}, updSnip |-> {}, insTags |-> {}, insAssoc |-> {}, delAssoc |-> {},
   tagX |-> {}, tagS |-> {}, snipX |-> {}, snipS |-> {}]

NoLoc == [i |-> 0, tagID |-> 0, err |-> NULL, rows |-> {}, out |-> {}]

Others(w) == Workers \ {w}

\* What a statement of w's transaction reads: the committed rows and its own writes.
SeenSnippets(w) ==
  {r \in snippets : \A u \in tx[w].updSnip : u.id # r.id}
    \cup tx[w].updSnip \cup tx[w].insSnip
SeenTags(w) == tags \cup tx[w].insTags
SeenAssoc(w) == (snippet_tags \ tx[w].delAssoc) \cup tx[w].insAssoc

\* tags.name UNIQUE: the index entry (or row) of a name is held exclusively by the
\* transaction that inserted or upserted it, and shared by one whose snippet_tags
\* row references it (FOR KEY SHARE).
TagHeldX(w, n) == \E v \in Others(w) : n \in tx[v].tagX
TagHeld(w, n) == \E v \in Others(w) : n \in tx[v].tagX \cup tx[v].tagS
\* snippets row: UPDATE holds it (FOR NO KEY UPDATE); a snippet_tags row that
\* references it holds FOR KEY SHARE, which only a DELETE of the row waits for.
SnipHeldX(w, id) == \E v \in Others(w) : id \in tx[v].snipX
SnipHeld(w, id) == \E v \in Others(w) : id \in tx[v].snipX \cup tx[v].snipS
\* snippet_tags PRIMARY KEY (snippet_id, tag_id): a pair another open transaction
\* inserted or deleted makes an insert of the same pair wait.
AssocHeld(w, a) == \E v \in Others(w) : a \in tx[v].insAssoc \cup tx[v].delAssoc

\* uuid.New() for a tag row.
NewTagId ==
  CHOOSE k \in TagIds :
    /\ \A t \in tags : t.id # k
    /\ \A v \in Workers : \A t \in tx[v].insTags : t.id # k
    /\ \A j \in TagIds :
         (/\ \A t \in tags : t.id # j
          /\ \A v \in Workers : \A t \in tx[v].insTags : t.id # j) => k <= j

\* COMMIT: the pending writes become the committed rows, all at once.
CommitWrites(w) ==
  /\ snippets' = {r \in snippets : \A u \in tx[w].updSnip : u.id # r.id}
                   \cup tx[w].updSnip \cup tx[w].insSnip
  /\ tags' = tags \cup tx[w].insTags
  /\ snippet_tags' = (snippet_tags \ tx[w].delAssoc) \cup tx[w].insAssoc
  /\ tx' = [tx EXCEPT ![w] = NoTx]
  /\ UNCHANGED <<users, folders>>

\* ROLLBACK (the deferred tx.Rollback()): the pending writes are dropped.
Rollback(w) ==
  /\ tx' = [tx EXCEPT ![w] = NoTx]
  /\ UNCHANGED dbVars

\* ------------------------------------------------------------- statements
\* Each statement operator gives [tx, tagID, err]: the transaction after the
\* statement, the value scanned (if any) and the error ("nil" for none).
Result(t, id, e) == [tx |-> t, tagID |-> id, err |-> e]

\* users(id) is what snippets.user_id REFERENCES.
UserExists(uid) == \E u \in users : u.id = uid

\* INSERT INTO snippets (...) VALUES (...)
InsertSnippet(w, row) ==
  IF ~UserExists(row.user_id)
  THEN Result(tx[w], 0, "fk_violation")
  ELSE Result([tx[w] EXCEPT !.insSnip = @ \cup {row}], 0, "nil")

\* INSERT INTO tags (id, name) VALUES ($1, $2)
\*   ON CONFLICT (name) DO UPDATE SET name = EXCLUDED.name RETURNING id
UpsertTagWaits(w, name) == TagHeld(w, name)
UpsertTag(w, name) ==
  LET hit == {t \in SeenTags(w) : t.name = name}
      id == NewTagId
  IN IF hit # {}
     THEN Result([tx[w] EXCEPT !.tagX = @ \cup {name}], (CHOOSE t \in hit : TRUE).id, "nil")
     ELSE Result([tx[w] EXCEPT !.tagX = @ \cup {name},
                               !.insTags = @ \cup {[id |-> id, name |-> name]}],
                 id, "nil")

\* SELECT id FROM tags WHERE name = $1
SelectTag(w, name) ==
  LET hit == {t \in SeenTags(w) : t.name = name}
  IN IF hit = {} THEN Result(tx[w], 0, "sql.ErrNoRows")
     ELSE Result(tx[w], (CHOOSE t \in hit : TRUE).id, "nil")

\* Variant: tags.name without its UNIQUE constraint.
InsertTagNoUnique(w, id, name) ==
  Result([tx[w] EXCEPT !.tagX = @ \cup {name},
                       !.insTags = @ \cup {[id |-> id, name |-> name]}],
         id, "nil")

\* INSERT INTO tags (id, name) VALUES ($1, $2)
InsertTagWaits(w, name) == TagHeldX(w, name)
InsertTag(w, id, name) ==
  IF \E t \in SeenTags(w) : t.name = name
  THEN Result(tx[w], id, "unique_violation")
  ELSE Result([tx[w] EXCEPT !.tagX = @ \cup {name},
                            !.insTags = @ \cup {[id |-> id, name |-> name]}],
              id, "nil")

TagNameOf(w, tid) == {t.name : t \in {u \in SeenTags(w) : u.id = tid}}

\* The foreign keys of a snippet_tags row: both referenced rows must be there,
\* and each gets a FOR KEY SHARE lock.
AssocRefsOk(w, sid, tid) ==
  /\ \E r \in SeenSnippets(w) : r.id = sid
  /\ \E t \in SeenTags(w) : t.id = tid
AssocWaits(w, sid, tid) ==
  \/ AssocHeld(w, [snippet_id |-> sid, tag_id |-> tid])
  \/ \E n \in TagNameOf(w, tid) : TagHeldX(w, n)
WithAssoc(w, sid, tid) ==
  [tx[w] EXCEPT !.insAssoc = @ \cup {[snippet_id |-> sid, tag_id |-> tid]},
                !.snipS = @ \cup {sid},
                !.tagS = @ \cup TagNameOf(w, tid)]

\* INSERT INTO snippet_tags (snippet_id, tag_id) VALUES ($1, $2) ON CONFLICT DO NOTHING
InsertAssocIgnore(w, sid, tid) ==
  IF [snippet_id |-> sid, tag_id |-> tid] \in SeenAssoc(w)
  THEN Result(tx[w], tid, "nil")
  ELSE IF ~AssocRefsOk(w, sid, tid)
       THEN Result(tx[w], tid, "fk_violation")
       ELSE Result(WithAssoc(w, sid, tid), tid, "nil")

\* INSERT INTO snippet_tags (snippet_id, tag_id) VALUES ($1, $2)
InsertAssoc(w, sid, tid) ==
  IF [snippet_id |-> sid, tag_id |-> tid] \in SeenAssoc(w)
  THEN Result(tx[w], tid, "unique_violation")
  ELSE IF ~AssocRefsOk(w, sid, tid)
       THEN Result(tx[w], tid, "fk_violation")
       ELSE Result(WithAssoc(w, sid, tid), tid, "nil")

\* UPDATE snippets SET title = $2, ..., folder_id = $6, updated_at = $7 WHERE id = $1
\* No row with that id: zero rows are affected and no error is raised.
\* A variant without the row lock: the UPDATE never waits.
UpdateSnippetNeverWaits(w, id) == FALSE
UpdateSnippetWaits(w, id) == SnipHeldX(w, id)
UpdateSnippet(w, s, now) ==
  LET hit == {r \in SeenSnippets(w) : r.id = s.id}
      new == {[r EXCEPT !.title = s.title, !.description = s.description,
                        !.language = s.language, !.code = s.code,
                        !.folder_id = s.folder_id, !.updated_at = now] : r \in hit}
  IN IF hit = {} THEN Result(tx[w], 0, "nil")
     ELSE Result([tx[w] EXCEPT !.updSnip = new, !.snipX = @ \cup {s.id}], 0, "nil")

\* DELETE FROM snippet_tags WHERE snippet_id = $1
DeleteAssocWaits(w, sid) ==
  \E a \in SeenAssoc(w) : a.snippet_id = sid /\ AssocHeld(w, a)
\* Variant: the existing associations are left in place.
DeleteAssocNone(w, sid) == Result(tx[w], 0, "nil")
DeleteAssoc(w, sid) ==
  LET gone == {a \in SeenAssoc(w) : a.snippet_id = sid}
  IN Result([tx[w] EXCEPT !.delAssoc = @ \cup (gone \cap snippet_tags),
                          !.insAssoc = @ \ gone], 0, "nil")

\* --------------------------------------------------------------- handlers
\* The status and message each handler writes for the error its storage call
\* returned (http.Error / w.WriteHeader).
Reply(st, m) == [status |-> st, msg |-> m]

HandlerReply(op, err) ==
  CASE op = "createSnippet" ->
         IF err = "nil" THEN Reply(201, "snippet") ELSE Reply(500, "Failed to create snippet")
    [] op = "updateSnippet" ->
         IF err = "nil" THEN Reply(200, "snippet")
         ELSE IF err = "snippet not found" THEN Reply(404, "Snippet not found")
         ELSE Reply(500, "Failed to update snippet")
    [] op = "deleteSnippet" ->
         IF err = "nil" THEN Reply(204, "")
         ELSE IF err = "snippet not found" THEN Reply(404, "Snippet not found")
         ELSE Reply(500, "Failed to delete snippet")
    [] op = "getSnippet" ->
         IF err = "nil" THEN Reply(200, "snippet")
         ELSE IF err = "snippet not found" THEN Reply(404, "Snippet not found")
         ELSE Reply(500, "Failed to retrieve snippet")
    [] op = "getSnippets" ->
         IF err = "nil" THEN Reply(200, "snippets") ELSE Reply(500, "Failed to retrieve snippets")
    [] op = "addTag" ->
         IF err = "nil" THEN Reply(201, "") ELSE Reply(500, "Failed to add tag")
    [] op = "removeTag" ->
         IF err = "nil" THEN Reply(204, "") ELSE Reply(500, "Failed to remove tag")
    [] op = "createFolder" ->
         IF err = "nil" THEN Reply(201, "folder") ELSE Reply(500, "Failed to create folder")
    [] op = "getFolderContents" ->
         IF err = "nil" THEN Reply(200, "contents") ELSE Reply(500, "Failed to get folder contents")
    [] op = "HandleUserFolders" ->
         IF err = "nil" THEN Reply(200, "folders") ELSE Reply(500, "Failed to retrieve folders")
    [] op = "Register" ->
         IF err = "nil" THEN Reply(201, "user") ELSE Reply(500, "Failed to create user")
    [] op = "Login" ->
         IF err = "nil" THEN Reply(200, "user")
         ELSE IF err = "bcrypt mismatch" THEN Reply(401, "Invalid password")
         ELSE Reply(401, "Invalid username")

\* The storage call returns err and the handler answers.
Return(w, err) ==
  /\ pc' = [pc EXCEPT ![w] = "done"]
  /\ req' = [req EXCEPT ![w].status = HandlerReply(arg[w].op, err).status,
                        ![w].msg = HandlerReply(arg[w].op, err).msg]

\* A statement failed: the deferred Rollback runs and the error is returned.
Fail(w, err) ==
  /\ Rollback(w)
  /\ Return(w, err)
  /\ loc' = [loc EXCEPT ![w].err = err]
  /\ UNCHANGED <<usedIds, clock, arg, served>>

\* A statement succeeded with result r: go on at `next`.
Goto(w, r, next, i) ==
  /\ tx' = [tx EXCEPT ![w] = r.tx]
  /\ pc' = [pc EXCEPT ![w] = next]
  /\ loc' = [loc EXCEPT ![w].i = i, ![w].tagID = r.tagID]
  /\ UNCHANGED <<dbVars, usedIds, clock, arg, req, served>>

Then(w, r, next, i) == IF r.err # "nil" THEN Fail(w, r.err) ELSE Goto(w, r, next, i)

\* for _, tag := range snippet.Tags
Tags(w) == arg[w].snippet.tags
Loop(w, i, body, exit) == IF i <= Len(Tags(w)) THEN body ELSE exit

\* ----------------------------------------------- PostgresStorage.Create
\* Variant: the row written without its folder.
NewRowNoFolder(s, now) ==
  [id |-> s.id, title |-> s.title, description |-> s.description,
   language |-> s.language, code |-> s.code, user_id |-> s.user_id,
   folder_id |-> NULL, created_at |-> now, updated_at |-> now]
NewRow(s, now) ==
  [id |-> s.id, title |-> s.title, description |-> s.description,
   language |-> s.language, code |-> s.code, user_id |-> s.user_id,
   folder_id |-> s.folder_id, created_at |-> now, updated_at |-> now]

\* s.db.Begin(); time.Now(); INSERT INTO snippets
CreateInsert(w) ==
  /\ pc[w] = "Create"
  /\ \/ Fail(w, "fault")
     \/ Then(w, InsertSnippet(w, NewRow(arg[w].snippet, clock)),
             Loop(w, 1, "Create_upsert", "Create_commit"), 1)

\* Variant: the upsert is executed on s.db instead of tx, so the tag row is
\* committed at once and no rollback takes it back.
CreateUpsertOnDb(w) ==
  /\ pc[w] = "Create_upsert"
  /\ \/ Fail(w, "fault")
     \/ LET r == UpsertTag(w, Tags(w)[loc[w].i])
        IN /\ ~UpsertTagWaits(w, Tags(w)[loc[w].i])
           /\ tags' = tags \cup r.tx.insTags
           /\ pc' = [pc EXCEPT ![w] = "Create_assoc"]
           /\ loc' = [loc EXCEPT ![w].tagID = r.tagID]
           /\ UNCHANGED <<users, snippets, snippet_tags, folders, usedIds, clock, arg, req,
                          tx, served>>

CreateUpsert(w) ==
  /\ pc[w] = "Create_upsert"
  /\ \/ Fail(w, "fault")
     \/ /\ ~UpsertTagWaits(w, Tags(w)[loc[w].i])
        /\ Then(w, UpsertTag(w, Tags(w)[loc[w].i]), "Create_assoc", loc[w].i)

CreateAssoc(w) ==
  /\ pc[w] = "Create_assoc"
  /\ \/ Fail(w, "fault")
     \/ /\ ~AssocWaits(w, arg[w].snippet.id, loc[w].tagID)
        /\ Then(w, InsertAssocIgnore(w, arg[w].snippet.id, loc[w].tagID),
                Loop(w, loc[w].i + 1, "Create_upsert", "Create_commit"), loc[w].i + 1)

\* tx.Commit()
Commit(w) ==
  /\ CommitWrites(w)
  /\ Return(w, "nil")
  /\ loc' = [loc EXCEPT ![w].err = "nil"]
  /\ UNCHANGED <<usedIds, clock, arg, served>>

CreateCommit(w) ==
  /\ pc[w] = "Create_commit"
  /\ \/ Fail(w, "fault")
     \/ Commit(w)

\* ----------------------------------------------- PostgresStorage.Update
\* s.db.Begin(); time.Now(); UPDATE snippets
\* PostgresStorage.Update, up to its first statement: db.Begin, then
\* snippet.UpdatedAt = time.Now() -- the instant is read before the UPDATE waits
\* for the row.
UpdateBegin(w) ==
  /\ pc[w] = "Update"
  /\ \/ Fail(w, "fault")
     \/ /\ pc' = [pc EXCEPT ![w] = "Update_row"]
        /\ arg' = [arg EXCEPT ![w].snippet.updated_at = clock]
        /\ UNCHANGED <<dbVars, usedIds, clock, req, loc, tx, served>>

UpdateRow(w) ==
  /\ pc[w] = "Update_row"
  /\ \/ Fail(w, "fault")
     \/ /\ ~UpdateSnippetWaits(w, arg[w].snippet.id)
        /\ Then(w, UpdateSnippet(w, arg[w].snippet, arg[w].snippet.updated_at),
                "Update_delete", 1)

\* Remove existing tags
UpdateDelete(w) ==
  /\ pc[w] = "Update_delete"
  /\ \/ Fail(w, "fault")
     \/ /\ ~DeleteAssocWaits(w, arg[w].snippet.id)
        /\ Then(w, DeleteAssoc(w, arg[w].snippet.id),
                Loop(w, 1, "Update_select", "Update_commit"), 1)

\* Variant: the earlier Update, whose loop calls s.AddTag, a transaction of
\* its own that commits the tag and the association while Update's is open.
UpdateCallsAddTag(w) ==
  /\ pc[w] = "Update_select"
  /\ \/ Fail(w, "fault")
     \/ LET sid == arg[w].snippet.id
            r == UpsertTag(w, Tags(w)[loc[w].i])
            a == [snippet_id |-> sid, tag_id |-> r.tagID]
        IN /\ a \notin tx[w].delAssoc
           /\ IF \E x \in snippets : x.id = sid
              THEN /\ tags' = tags \cup r.tx.insTags
                   /\ snippet_tags' = snippet_tags \cup {a}
                   /\ pc' = [pc EXCEPT ![w] =
                               Loop(w, loc[w].i + 1, "Update_select", "Update_commit")]
                   /\ loc' = [loc EXCEPT ![w].i = @ + 1, ![w].tagID = r.tagID]
                   /\ UNCHANGED <<users, snippets, folders, usedIds, clock, arg, req, tx,
                                  served>>
              ELSE Fail(w, "fk_violation")

\* SELECT id FROM tags WHERE name = $1; sql.ErrNoRows leads to the INSERT.
UpdateSelect(w) ==
  /\ pc[w] = "Update_select"
  /\ \/ Fail(w, "fault")
     \/ LET r == SelectTag(w, Tags(w)[loc[w].i])
        IN Goto(w, r, IF r.err = "sql.ErrNoRows" THEN "Update_insert" ELSE "Update_assoc",
                loc[w].i)

\* tagID = uuid.New(); INSERT INTO tags (id, name)
UpdateInsert(w) ==
  /\ pc[w] = "Update_insert"
  /\ \/ Fail(w, "fault")
     \/ /\ ~InsertTagWaits(w, Tags(w)[loc[w].i])
        /\ Then(w, InsertTag(w, NewTagId, Tags(w)[loc[w].i]), "Update_assoc", loc[w].i)

UpdateAssoc(w) ==
  /\ pc[w] = "Update_assoc"
  /\ \/ Fail(w, "fault")
     \/ /\ ~AssocWaits(w, arg[w].snippet.id, loc[w].tagID)
        /\ Then(w, InsertAssoc(w, arg[w].snippet.id, loc[w].tagID),
                Loop(w, loc[w].i + 1, "Update_select", "Update_commit"), loc[w].i + 1)

UpdateCommit(w) ==
  /\ pc[w] = "Update_commit"
  /\ \/ Fail(w, "fault")
     \/ Commit(w)

\* ----------------------------------------------- PostgresStorage.AddTag
\* Variant: the tag upsert run on s.db, outside the transaction, so that it
\* is committed at once.
AddTagUpsertOnDb(w) ==
  /\ pc[w] = "AddTag"
  /\ \/ Fail(w, "fault")
     \/ LET r == UpsertTag(w, arg[w].tag)
        IN /\ ~UpsertTagWaits(w, arg[w].tag)
           /\ tags' = tags \cup r.tx.insTags
           /\ pc' = [pc EXCEPT ![w] = "AddTag_assoc"]
           /\ loc' = [loc EXCEPT ![w].i = 0, ![w].tagID = r.tagID]
           /\ UNCHANGED <<users, snippets, snippet_tags, folders, usedIds, clock, arg, req,
                          tx, served>>

AddTagUpsert(w) ==
  /\ pc[w] = "AddTag"
  /\ \/ Fail(w, "fault")
     \/ /\ ~UpsertTagWaits(w, arg[w].tag)
        /\ Then(w, UpsertTag(w, arg[w].tag), "AddTag_assoc", 0)

\* Variant: the association inserted without ON CONFLICT DO NOTHING.
AddTagAssocPlain(w) ==
  /\ pc[w] = "AddTag_assoc"
  /\ \/ Fail(w, "fault")
     \/ /\ ~AssocWaits(w, arg[w].id, loc[w].tagID)
        /\ Then(w, InsertAssoc(w, arg[w].id, loc[w].tagID), "AddTag_commit", 0)

AddTagAssoc(w) ==
  /\ pc[w] = "AddTag_assoc"
  /\ \/ Fail(w, "fault")
     \/ /\ ~AssocWaits(w, arg[w].id, loc[w].tagID)
        /\ Then(w, InsertAssocIgnore(w, arg[w].id, loc[w].tagID), "AddTag_commit", 0)

AddTagCommit(w) ==
  /\ pc[w] = "AddTag_commit"
  /\ \/ Fail(w, "fault")
     \/ Commit(w)

\* ------------------------------------------------------------------ reads
\* SELECT t.name FROM tags t JOIN snippet_tags st ON t.id = st.tag_id
\*   WHERE st.snippet_id = $1
GetSnippetTags(sid) ==
  {t.name : t \in {u \in tags : \E a \in snippet_tags :
                                   a.snippet_id = sid /\ a.tag_id = u.id}}

\* A read statement ended: keep what it scanned and go on, or return.
Scanned(w, next, rows, out) ==
  /\ pc' = [pc EXCEPT ![w] = next]
  /\ loc' = [loc EXCEPT ![w].rows = rows, ![w].out = out]
  /\ UNCHANGED <<dbVars, usedIds, clock, arg, req, tx, served>>

Returned(w, err, out) ==
  /\ Return(w, err)
  /\ loc' = [loc EXCEPT ![w].err = err, ![w].rows = {}, ![w].out = out]
  /\ UNCHANGED <<dbVars, usedIds, clock, arg, tx, served>>

\* PostgresStorage.Get: the row, then its tags, in two statements.  Any error
\* of the first (no row, or a fault) becomes "snippet not found".
GetRow(w) ==
  /\ pc[w] = "Get"
  /\ \/ Returned(w, "snippet not found", {})
     \/ /\ \E r \in snippets : r.id = arg[w].id
        /\ Scanned(w, "Get_tags", {r \in snippets : r.id = arg[w].id}, {})

GetTags(w) ==
  /\ pc[w] = "Get_tags"
  /\ \/ Returned(w, "fault", {})
     \/ Returned(w, "nil", {[row |-> r, tags |-> GetSnippetTags(r.id)] : r \in loc[w].rows})

\* PostgresStorage.GetAll: every row, then one GetSnippetTags per row.
GetAllRows(w) ==
  /\ pc[w] = "GetAll"
  /\ \/ Returned(w, "fault", {})
     \/ IF snippets = {} THEN Returned(w, "nil", {})
        ELSE Scanned(w, "GetAll_tags", snippets, {})

GetAllTags(w) ==
  /\ pc[w] = "GetAll_tags"
  /\ \/ Returned(w, "fault", {})
     \/ \E r \in loc[w].rows :
          LET out == loc[w].out \cup {[row |-> r, tags |-> GetSnippetTags(r.id)]}
          IN IF loc[w].rows = {r} THEN Returned(w, "nil", out)
             ELSE Scanned(w, "GetAll_tags", loc[w].rows \ {r}, out)

\* ------------------------------------------------ autocommit statements
Wrote(w, err) ==
  /\ Return(w, err)
  /\ loc' = [loc EXCEPT ![w].err = err]
  /\ UNCHANGED <<usedIds, clock, arg, tx, served>>

\* Variant: snippet_tags without ON DELETE CASCADE on snippet_id.
DeleteNoCascade(w) ==
  /\ pc[w] = "Delete"
  /\ \/ Wrote(w, "fault") /\ UNCHANGED dbVars
     \/ /\ ~SnipHeld(w, arg[w].id)
        /\ snippets' = {r \in snippets : r.id # arg[w].id}
        /\ UNCHANGED <<users, tags, snippet_tags, folders>>
        /\ Wrote(w, "nil")

\* PostgresStorage.Delete: DELETE FROM snippets where id = $1; snippet_tags rows
\* go with it (ON DELETE CASCADE).  Zero rows deleted is no error.
Delete(w) ==
  /\ pc[w] = "Delete"
  /\ \/ Wrote(w, "fault") /\ UNCHANGED dbVars
     \/ /\ ~SnipHeld(w, arg[w].id)
        /\ snippets' = {r \in snippets : r.id # arg[w].id}
        /\ snippet_tags' = {a \in snippet_tags : a.snippet_id # arg[w].id}
        /\ UNCHANGED <<users, tags, folders>>
        /\ Wrote(w, "nil")

\* Variant: a DELETE that affected no row is reported as an error.
RemoveTagStrict(w) ==
  /\ pc[w] = "RemoveTag"
  /\ \/ Wrote(w, "fault") /\ UNCHANGED dbVars
     \/ LET gone == {a \in snippet_tags :
                       /\ a.snippet_id = arg[w].id
                       /\ \E t \in tags : t.name = arg[w].tag /\ t.id = a.tag_id}
        IN /\ \A a \in gone : ~AssocHeld(w, a)
           /\ snippet_tags' = snippet_tags \ gone
           /\ UNCHANGED <<users, snippets, tags, folders>>
           /\ Wrote(w, IF gone = {} THEN "no rows affected" ELSE "nil")

\* Variant: the DELETE without its snippet_id condition.
RemoveTagEverywhere(w) ==
  /\ pc[w] = "RemoveTag"
  /\ \/ Wrote(w, "fault") /\ UNCHANGED dbVars
     \/ LET gone == {a \in snippet_tags :
                       \E t \in tags : t.name = arg[w].tag /\ t.id = a.tag_id}
        IN /\ \A a \in gone : ~AssocHeld(w, a)
           /\ snippet_tags' = snippet_tags \ gone
           /\ UNCHANGED <<users, snippets, tags, folders>>
           /\ Wrote(w, "nil")

\* PostgresStorage.RemoveTag: DELETE FROM snippet_tags WHERE snippet_id = $1
\*   AND tag_id = (SELECT id FROM tags WHERE name = $2)
RemoveTag(w) ==
  /\ pc[w] = "RemoveTag"
  /\ \/ Wrote(w, "fault") /\ UNCHANGED dbVars
     \/ LET gone == {a \in snippet_tags :
                       /\ a.snippet_id = arg[w].id
                       /\ \E t \in tags : t.name = arg[w].tag /\ t.id = a.tag_id}
        IN /\ \A a \in gone : ~AssocHeld(w, a)
           /\ snippet_tags' = snippet_tags \ gone
           /\ UNCHANGED <<users, snippets, tags, folders>>
           /\ Wrote(w, "nil")

\* A variant of a table without the foreign key on parent_id.
CreateFolderAnyParent(w) ==
  /\ pc[w] = "CreateFolder"
  /\ \/ Wrote(w, "fault") /\ UNCHANGED dbVars
     \/ LET f == arg[w].folder
        IN IF UserExists(f.user_id)
           THEN /\ folders' = folders \cup {[f EXCEPT !.created_at = clock, !.updated_at = clock]}
                /\ UNCHANGED <<users, snippets, tags, snippet_tags>>
                /\ Wrote(w, "nil")
           ELSE Wrote(w, "fk_violation") /\ UNCHANGED dbVars

\* PostgresStorage.CreateFolder: parent_id REFERENCES folders(id), user_id
\* REFERENCES users(id).  The keys are checked once the row is in, so a row
\* naming itself as parent would pass.
CreateFolder(w) ==
  /\ pc[w] = "CreateFolder"
  /\ \/ Wrote(w, "fault") /\ UNCHANGED dbVars
     \/ LET f == arg[w].folder
            ok == /\ UserExists(f.user_id)
                  /\ f.parent_id = NULL \/ \E g \in folders \cup {f} : g.id = f.parent_id
        IN IF ok
           THEN /\ folders' = folders \cup {[f EXCEPT !.created_at = clock, !.updated_at = clock]}
                /\ UNCHANGED <<users, snippets, tags, snippet_tags>>
                /\ Wrote(w, "nil")
           ELSE Wrote(w, "fk_violation") /\ UNCHANGED dbVars

\* PostgresStorage.GetFoldersByUser
GetFoldersByUser(w) ==
  /\ pc[w] = "GetFoldersByUser"
  /\ \/ Returned(w, "fault", {})
     \/ Returned(w, "nil", {f \in folders : f.user_id = arg[w].id})

\* PostgresStorage.GetFolderContents: the snippets of the folder, one
\* GetSnippetTags per snippet, then the folders whose parent it is.
\* A variant that descends: it also lists the snippets of the subfolders.
ContentsRowsDeep(w) ==
  /\ pc[w] = "Contents"
  /\ \/ Returned(w, "fault", {})
     \/ LET below == {arg[w].id} \cup {g.id : g \in {f \in folders : f.parent_id = arg[w].id}}
            rows == {r \in snippets : r.folder_id \in below}
        IN Scanned(w, IF rows = {} THEN "Contents_folders" ELSE "Contents_tags", rows, {})

ContentsRows(w) ==
  /\ pc[w] = "Contents"
  /\ \/ Returned(w, "fault", {})
     \/ LET rows == {r \in snippets : r.folder_id = arg[w].id}
        IN Scanned(w, IF rows = {} THEN "Contents_folders" ELSE "Contents_tags", rows, {})

ContentsTags(w) ==
  /\ pc[w] = "Contents_tags"
  /\ \/ Returned(w, "fault", {})
     \/ \E r \in loc[w].rows :
          Scanned(w, IF loc[w].rows = {r} THEN "Contents_folders" ELSE "Contents_tags",
                  loc[w].rows \ {r},
                  loc[w].out \cup {[row |-> r, tags |-> GetSnippetTags(r.id)]})

ContentsFolders(w) ==
  /\ pc[w] = "Contents_folders"
  /\ \/ Returned(w, "fault", {})
     \/ Returned(w, "nil",
                 {[snippets |-> loc[w].out,
                   folders |-> {f \in folders : f.parent_id = arg[w].id}]})

\* ------------------------------------------------------------------ users
\* bcrypt: an opaque salted one-way hash; CompareHashAndPassword accepts exactly
\* the password the hash was generated from.
GenerateFromPassword(p) == <<"bcrypt", p>>
CompareHashAndPassword(h, p) == h = GenerateFromPassword(p)

NewUserId == CHOOSE u \in UserIds : u \notin usedIds

\* json.NewEncoder(w).Encode(user): Password is tagged json:"-" and is left
\* out of the object.
EncodeUser(u) == [id |-> u.id, username |-> u.username, email |-> u.email]

\* Register: user.Password = "", then the user is encoded.
RegisterResponse(u) == EncodeUser([u EXCEPT !.password = ""])

\* Variant: the stored row written to the response as it is.
LoginResponseRaw(u) ==
  [id |-> u.id, username |-> u.username, email |-> u.email, password |-> u.password]

\* Login: user.Password = "", then the user is encoded.
LoginResponse(u) == EncodeUser([u EXCEPT !.password = ""])

\* The statement ended and the handler answers with a body.
WroteBody(w, err, out) ==
  /\ Return(w, err)
  /\ loc' = [loc EXCEPT ![w].err = err, ![w].out = out]
  /\ UNCHANGED <<usedIds, clock, arg, tx, served>>

\* Variant: users without the UNIQUE constraints on username and email.
CreateUserNoUnique(w) ==
  /\ pc[w] = "CreateUser"
  /\ \/ Wrote(w, "fault") /\ UNCHANGED dbVars
     \/ LET u == arg[w].user
        IN /\ users' = users \cup {[id |-> u.id, username |-> u.username,
                                    email |-> u.email,
                                    password |-> GenerateFromPassword(u.password)]}
           /\ UNCHANGED <<snippets, tags, snippet_tags, folders>>
           /\ WroteBody(w, "nil", {RegisterResponse(u)})

\* PostgresStorage.CreateUser: username and email are UNIQUE.  On success
\* Register answers with the user.
CreateUser(w) ==
  /\ pc[w] = "CreateUser"
  /\ \/ Wrote(w, "fault") /\ UNCHANGED dbVars
     \/ LET u == arg[w].user
        IN IF \E v \in users : v.username = u.username \/ v.email = u.email
           THEN Wrote(w, "unique_violation") /\ UNCHANGED dbVars
           ELSE /\ users' = users \cup {[id |-> u.id, username |-> u.username,
                                         email |-> u.email,
                                         password |-> GenerateFromPassword(u.password)]}
                /\ UNCHANGED <<snippets, tags, snippet_tags, folders>>
                /\ WroteBody(w, "nil", {RegisterResponse(u)})

\* UserHandler.Login after decoding: GetUserByUsername, then the bcrypt compare.
\* The user is answered with its password cleared.
Login(w) ==
  /\ pc[w] = "Login"
  /\ \/ Returned(w, "fault", {})
     \/ LET hit == {u \in users : u.username = arg[w].user.username}
        IN IF hit = {} THEN Returned(w, "user not found", {})
           ELSE IF \E u \in hit : ~CompareHashAndPassword(u.password, arg[w].user.password)
           THEN Returned(w, "bcrypt mismatch", {})
           ELSE Returned(w, "nil", {LoginResponse(u) : u \in hit})

\* ---------------------------------------------------------------- decoding
NoSnippet ==
  [id |-> NULL, title |-> NULL, description |-> NULL, language |-> NULL, code |-> NULL,
   user_id |-> NULL, folder_id |-> NULL, created_at |-> 0, updated_at |-> 0,
   tags |-> <<>>]
NoFolder ==
  [id |-> NULL, name |-> NULL, parent_id |-> NULL, user_id |-> NULL,
   created_at |-> 0, updated_at |-> 0]
NoUser == [id |-> NULL, username |-> NULL, email |-> NULL, password |-> NULL]
NoArg ==
  [op |-> NULL, id |-> NULL, tag |-> NULL, snippet |-> NoSnippet, folder |-> NoFolder,
   user |-> NoUser]

\* json.Decode into models.User: Password is tagged json:"-", so the decoder
\* never fills it and it keeps its zero value.
DecodeUser(body) ==
  [id |-> NULL, username |-> body.username, email |-> body.email, password |-> ""]

\* json.Decode into the anonymous credentials struct of Login.
DecodeCredentials(body) ==
  [id |-> NULL, username |-> body.username, email |-> NULL, password |-> body.password]

\* uuid.Parse of a path segment or query value.
UuidParses(x) == x # "bad"

\* ------------------------------------------------------------- Auth Gate
jwtKey == "my_secret_key"

\* A token string: empty, not a JWT at all, or a JWT with its algorithm, the
\* key it was signed with and whether its exp claim has passed.
NoToken == [form |-> "empty", alg |-> NULL, key |-> NULL, expired |-> FALSE]
Garbage == [form |-> "garbage", alg |-> NULL, key |-> NULL, expired |-> FALSE]
Jwt(alg, key, expired) == [form |-> "jwt", alg |-> alg, key |-> key, expired |-> expired]

\* r.Header.Get("Authorization"): a scheme prefix and what follows it.
NoHeader == [scheme |-> "", token |-> NoToken]

\* strings.TrimPrefix(authHeader, "Bearer "): only that prefix is removed; a
\* header with another scheme stays whole, and is no JWT.
TrimBearer(h) ==
  IF h.scheme = "Bearer " \/ h.scheme = "" THEN h.token ELSE Garbage

\* The signing methods a []byte key verifies.
HMAC == {"HS256", "HS384", "HS512"}

\* Variant: the claims are not validated, so an expired token passes.
ParseWithoutClaimsValidation(t) ==
  /\ t.form = "jwt"
  /\ t.alg \in HMAC
  /\ t.key = "my_secret_key"

\* jwt.ParseWithClaims with a key function that returns jwtKey whatever the
\* token's method: the token must parse, be HMAC-signed with jwtKey, and not
\* be expired.
ParseWithClaims(t) ==
  /\ t.form = "jwt"
  /\ t.alg \in HMAC
  /\ t.key = jwtKey
  /\ ~t.expired

Gate(state, status, msg) == [state |-> state, status |-> status, msg |-> msg]

\* Variant: the validity test inverted (err != nil || token.Valid).
JWTAuthInverted(h) ==
  IF h.scheme = "" /\ h.token.form = "empty"
  THEN Gate("NoHeader", 401, "Authorization header missing")
  ELSE IF TrimBearer(h).form = "empty"
  THEN Gate("HeaderPresentNoToken", 401, "Token missing")
  ELSE IF ParseWithClaims(TrimBearer(h))
  THEN Gate("TokenPresentInvalidOrExpired", 401, "Invalid token")
  ELSE Gate("TokenValid", 0, "")

JWTAuth(h) ==
  IF h = NoHeader
  THEN Gate("NoHeader", 401, "Authorization header missing")
  ELSE IF TrimBearer(h) = NoToken
  THEN Gate("HeaderPresentNoToken", 401, "Token missing")
  ELSE IF ~ParseWithClaims(TrimBearer(h))
  THEN Gate("TokenPresentInvalidOrExpired", 401, "Invalid token")
  ELSE Gate("TokenValid", 0, "")

\* ------------------------------------------------------------------- mux
\* main: the patterns registered on the default ServeMux.  A pattern ending in
\* "/" names a subtree; the others match one path only.
Route(segs, subtree, handler, auth) ==
  [segs |-> segs, subtree |-> subtree, handler |-> handler, auth |-> auth]

\* Variant: /folders registered without the gate.
RoutesFoldersOpen ==
  { Route(<<"register">>, FALSE, "Register", FALSE),
    Route(<<"login">>, FALSE, "Login", FALSE),
    Route(<<"snippets">>, TRUE, "HandleSnippet", TRUE),
    Route(<<"snippets">>, FALSE, "HandleSnippets", TRUE),
    Route(<<"tags">>, TRUE, "HandleTags", TRUE),
    Route(<<"folders">>, FALSE, "HandleFolders", FALSE),
    Route(<<"folders", "user">>, TRUE, "HandleUserFolders", TRUE) }

Routes ==
  { Route(<<"register">>, FALSE, "Register", FALSE),
    Route(<<"login">>, FALSE, "Login", FALSE),
    Route(<<"snippets">>, TRUE, "HandleSnippet", TRUE),
    Route(<<"snippets">>, FALSE, "HandleSnippets", TRUE),
    Route(<<"tags">>, TRUE, "HandleTags", TRUE),
    Route(<<"folders">>, FALSE, "HandleFolders", TRUE),
    Route(<<"folders", "user">>, TRUE, "HandleUserFolders", TRUE) }

Matches(r, path) ==
  IF r.subtree
  THEN Len(path) > Len(r.segs) /\ SubSeq(path, 1, Len(r.segs)) = r.segs
  ELSE path = r.segs

\* The longest matching pattern wins; no match is the mux's own 404.
Mux(path) ==
  LET hit == {r \in Routes : Matches(r, path)}
  IN {r \in hit : \A q \in hit : Len(q.segs) <= Len(r.segs)}

\* ------------------------------------------------------- handler dispatch
\* What a handler does before its storage call: it answers at once, or it
\* calls the storage (entry point, arguments, the uuid it drew if any).
Answer(st, m) ==
  [kind |-> "answer", status |-> st, msg |-> m, pc |-> "done", arg |-> NoArg, uuid |-> NULL,
   body |-> NULL]
Call(entry, a, uuid) ==
  [kind |-> "call", status |-> 0, msg |-> "", pc |-> entry, arg |-> a, uuid |-> uuid,
   body |-> NULL]
\* The same, keeping the JSON body as the client sent it.
CallWith(b, entry, a, uuid) == [Call(entry, a, uuid) EXCEPT !.body = b]
AnswerTo(b, st, m) == [Answer(st, m) EXCEPT !.body = b]
\* A body json.Decode fails on.
Malformed == [malformed |-> TRUE]

BadPayload(in) ==
  IF in.malformed THEN {AnswerTo(Malformed, 400, "Invalid request payload")} ELSE {}

NewSnippetId == CHOOSE x \in SnippetIds : x \notin usedIds
\* uuid.New() is a random draw: an id never issued before, and not one the
\* request could name.
FreshFolderIds(b) == {x \in FolderIds : x \notin usedIds /\ x # b.parent_id}
NewFolderId(b) == CHOOSE x \in FreshFolderIds(b) : TRUE

\* UserHandler.Register (no method check)
Register(in) ==
  BadPayload(in) \cup
  (IF UserIds \subseteq usedIds THEN {}
   ELSE {CallWith(b, "CreateUser",
                  [NoArg EXCEPT !.op = "Register",
                                !.user = [DecodeUser(b) EXCEPT !.id = NewUserId]],
                  NewUserId) : b \in in.users})

\* UserHandler.Login (no method check)
LoginHandler(in) ==
  BadPayload(in) \cup
  {CallWith(b, "Login", [NoArg EXCEPT !.op = "Login", !.user = DecodeCredentials(b)], NULL) :
     b \in in.creds}

getSnippets == {Call("GetAll", [NoArg EXCEPT !.op = "getSnippets"], NULL)}

\* A variant without the check of the code field.
createSnippetAnyCode(in) ==
  BadPayload(in) \cup
  (IF SnippetIds \subseteq usedIds THEN {}
   ELSE {CallWith(b, "Create",
                  [NoArg EXCEPT !.op = "createSnippet",
                                !.snippet = [b EXCEPT !.id = NewSnippetId]],
                  NewSnippetId) : b \in in.snippets})

createSnippet(in) ==
  BadPayload(in) \cup
  {AnswerTo(b, 400, "Code cannot be empty") : b \in {c \in in.snippets : c.code = ""}} \cup
  (IF SnippetIds \subseteq usedIds THEN {}
   ELSE {CallWith(b, "Create",
                  [NoArg EXCEPT !.op = "createSnippet",
                                !.snippet = [b EXCEPT !.id = NewSnippetId]],
                  NewSnippetId) : b \in {c \in in.snippets : c.code # ""}})

getSnippet(id) == {Call("Get", [NoArg EXCEPT !.op = "getSnippet", !.id = id], NULL)}

updateSnippet(id, in) ==
  BadPayload(in) \cup
  {AnswerTo(b, 400, "Code cannot be empty") : b \in {c \in in.snippets : c.code = ""}} \cup
  {CallWith(b, "Update", [NoArg EXCEPT !.op = "updateSnippet", !.id = id,
                                       !.snippet = [b EXCEPT !.id = id]], NULL) :
     b \in {c \in in.snippets : c.code # ""}}

deleteSnippet(id) == {Call("Delete", [NoArg EXCEPT !.op = "deleteSnippet", !.id = id], NULL)}

HandleSnippets(m, in) ==
  CASE m = "GET" -> getSnippets
    [] m = "POST" -> createSnippet(in)
    [] OTHER -> {Answer(405, "Method not allowed")}

\* idStr := strings.TrimPrefix(r.URL.Path, "/snippets/")
HandleSnippet(m, path, in) ==
  IF ~(Len(path) = 2 /\ UuidParses(path[2]))
  THEN {Answer(400, "Invalid snippet ID")}
  ELSE CASE m = "GET" -> getSnippet(path[2])
         [] m = "PUT" -> updateSnippet(path[2], in)
         [] m = "DELETE" -> deleteSnippet(path[2])
         [] OTHER -> {Answer(405, "Method not allowed")}

\* parts := strings.Split(r.URL.Path, "/"): parts[0] is empty, parts[1] "tags".
HandleTags(m, path) ==
  IF Len(path) + 1 < 4 THEN {Answer(400, "Invalid URL")}
  ELSE IF ~UuidParses(path[2]) THEN {Answer(400, "Invalid snippet ID")}
  ELSE CASE m = "POST" ->
              {Call("AddTag", [NoArg EXCEPT !.op = "addTag", !.id = path[2], !.tag = path[3]], NULL)}
         [] m = "DELETE" ->
              {Call("RemoveTag",
                    [NoArg EXCEPT !.op = "removeTag", !.id = path[2], !.tag = path[3]], NULL)}
         [] OTHER -> {Answer(405, "Method not allowed")}

createFolder(in) ==
  BadPayload(in) \cup
  {CallWith(b, "CreateFolder",
            [NoArg EXCEPT !.op = "createFolder", !.folder = [b EXCEPT !.id = NewFolderId(b)]],
            NewFolderId(b)) : b \in {c \in in.folders : FreshFolderIds(c) # {}}}

\* folderIDStr := r.URL.Query().Get("id")
getFolderContents(in) ==
  {IF UuidParses(q)
   THEN CallWith([id |-> q], "Contents",
                 [NoArg EXCEPT !.op = "getFolderContents", !.id = q], NULL)
   ELSE AnswerTo([id |-> q], 400, "Invalid folder ID") : q \in in.queries}

HandleFolders(m, in) ==
  CASE m = "POST" -> createFolder(in)
    [] m = "GET" -> getFolderContents(in)
    [] OTHER -> {Answer(405, "Method not allowed")}

\* userIDStr := strings.TrimPrefix(r.URL.Path, "/folders/user/"); no method check
HandleUserFolders(path) ==
  IF ~(Len(path) = 3 /\ UuidParses(path[3]))
  THEN {Answer(400, "Invalid user ID")}
  ELSE {Call("GetFoldersByUser", [NoArg EXCEPT !.op = "HandleUserFolders", !.id = path[3]], NULL)}

Handle(handler, m, path, in) ==
  CASE handler = "Register" -> Register(in)
    [] handler = "Login" -> LoginHandler(in)
    [] handler = "HandleSnippets" -> HandleSnippets(m, in)
    [] handler = "HandleSnippet" -> HandleSnippet(m, path, in)
    [] handler = "HandleTags" -> HandleTags(m, path)
    [] handler = "HandleFolders" -> HandleFolders(m, in)
    [] handler = "HandleUserFolders" -> HandleUserFolders(path)

\* ---------------------------------------------------------------- serving
NoReq ==
  [method |-> NULL, path |-> <<>>, auth |-> NoHeader, handler |-> NULL, gate |-> NULL,
   calls |-> 0, status |-> 0, msg |-> "", body |-> NULL]

\* The request ends here with this status.
Respond(w, rq, st, m) ==
  /\ pc' = [pc EXCEPT ![w] = "done"]
  /\ req' = [req EXCEPT ![w] = [rq EXCEPT !.status = st, !.msg = m]]
  /\ UNCHANGED <<arg, usedIds>>

\* next(w, r): the wrapped handler runs, once.
Invoke(w, rq, o) ==
  /\ pc' = [pc EXCEPT ![w] = o.pc]
  /\ req' = [req EXCEPT ![w] = [rq EXCEPT !.calls = @ + 1, !.status = o.status,
                                          !.msg = o.msg, !.body = o.body]]
  /\ arg' = [arg EXCEPT ![w] = o.arg]
  /\ usedIds' = usedIds \cup ({o.uuid} \ {NULL})

\* Idle workers are interchangeable: the lowest one takes the request.
FirstIdle(w) == \A v \in Workers : v < w => pc[v] # "idle"

\* A run that is budgeted takes at most `budget` requests.
NoLimit == 0 - 1
Budgeted(budget) ==
  IF budget = NoLimit THEN UNCHANGED served
  ELSE served < budget /\ served' = served + 1

\* One request, from the mux through the gate into its handler, up to the
\* handler's storage call.  `in` holds the sets the request is drawn from.
Serve(w, in, budget) ==
  /\ pc[w] = "idle"
  /\ FirstIdle(w)
  /\ Budgeted(budget)
  /\ \E m \in in.methods, path \in in.paths, h \in in.headers :
       LET rq == [NoReq EXCEPT !.method = m, !.path = path, !.auth = h]
       IN IF Mux(path) = {}
          THEN Respond(w, rq, 404, "404 page not found")
          ELSE \E r \in Mux(path) :
                 LET g == IF r.auth THEN JWTAuth(h) ELSE Gate("Public", 0, "")
                     fw == [rq EXCEPT !.handler = r.handler, !.gate = g.state]
                 IN IF g.status # 0
                    THEN Respond(w, fw, g.status, g.msg)
                    ELSE \E o \in Handle(r.handler, m, path, in) : Invoke(w, fw, o)
  /\ UNCHANGED <<dbVars, clock, loc, tx>>

\* The response is written; the worker takes the next request.
Finish(w) ==
  /\ pc[w] = "done"
  /\ pc' = [pc EXCEPT ![w] = "idle"]
  /\ req' = [req EXCEPT ![w] = NoReq]
  /\ arg' = [arg EXCEPT ![w] = NoArg]
  /\ loc' = [loc EXCEPT ![w] = NoLoc]
  /\ UNCHANGED <<dbVars, usedIds, clock, tx, served>>

Tick ==
  /\ clock < MaxClock
  /\ clock' = clock + 1
  /\ UNCHANGED <<dbVars, usedIds, pc, req, arg, loc, tx, served>>

\* ------------------------------------------------------------------ inputs
Bearer(t) == [scheme |-> "Bearer ", token |-> t]
GoodToken == Jwt("HS256", jwtKey, FALSE)

Body(title, code, user, folder, tl) ==
  [NoSnippet EXCEPT !.title = title, !.description = "d", !.language = "go", !.code = code,
                    !.user_id = user, !.folder_id = folder, !.tags = tl]

Alice == [username |-> "alice", email |-> "alice@example.com", password |-> "pw123"]

Inputs(methods, paths, headers, malformed, snips, fs, us, creds, queries) ==
  [methods |-> methods, paths |-> paths, headers |-> headers, malformed |-> malformed,
   snippets |-> snips, folders |-> fs, users |-> us, creds |-> creds, queries |-> queries]

\* Requests of an authenticated client on the snippet and tag routes, with
\* payloads of every shape: repeated tag names, a folder or none, the id of a
\* registered user or of none.
StoreInputs ==
  Inputs({"GET", "POST", "PUT", "DELETE"},
         {<<"register">>, <<"snippets">>}
           \cup {<<"snippets", x>> : x \in SnippetIds}
           \cup {<<"tags", x, n>> : x \in SnippetIds, n \in TagNames},
         {Bearer(GoodToken)}, FALSE,
         {Body(k[1], "c1", k[2], k[3], tl) :
            k \in {<<"t1", "u1", NULL>>, <<"t2", "u1", "f1">>, <<"t1", "u2", NULL>>},
            tl \in TagLists},
         {}, {Alice}, {}, {})

\* Requests of any client: every method on every path, with every kind of
\* Authorization header.
Methods == {"GET", "POST", "PUT", "DELETE", "PATCH"}
Paths ==
  {<<"register">>, <<"login">>, <<"snippets">>, <<"folders">>, <<"tags", "s1">>,
   <<"folders", "f1">>, <<"nowhere">>}
    \cup {<<"snippets", x>> : x \in {"s1", "bad"}}
    \cup {<<"tags", x, "a">> : x \in {"s1", "bad"}}
    \cup {<<"folders", "user", x>> : x \in {"u1", "bad"}}
Tokens ==
  {NoToken, Garbage, GoodToken, Jwt("HS512", jwtKey, FALSE), Jwt("HS256", jwtKey, TRUE),
   Jwt("HS256", "other", FALSE), Jwt("none", NULL, FALSE)}
Headers ==
  {NoHeader} \cup {Bearer(t) : t \in Tokens}
    \cup {[scheme |-> "", token |-> GoodToken], [scheme |-> "Basic ", token |-> GoodToken],
          [scheme |-> "Bearer", token |-> NoToken]}
HttpInputs ==
  Inputs(Methods, Paths, Headers, TRUE,
         {Body("t1", c, "u1", "f1", <<"a">>) : c \in {"", "c1"}},
         {[NoFolder EXCEPT !.name = "n", !.user_id = "u1"]},
         {Alice}, {[username |-> "alice", password |-> ""]}, {"f1", "bad"})

\* Clients attaching tags, to a snippet that exists or not.
AttachInputs ==
  Inputs({"POST"}, {<<"tags", x, n>> : x \in SnippetIds, n \in TagNames},
         {Bearer(GoodToken)}, FALSE, {}, {}, {}, {}, {})

\* Clients filing snippets into a tree of folders and listing the folders.
FolderInputs ==
  Inputs({"GET", "POST"}, {<<"register">>, <<"snippets">>, <<"folders">>},
         {Bearer(GoodToken)}, FALSE,
         {Body("t1", "c1", "u1", f, tl) : f \in FolderIds, tl \in {<<>>, <<"a">>}},
         {[NoFolder EXCEPT !.name = "n", !.user_id = "u1", !.parent_id = p] :
            p \in {NULL} \cup FolderIds},
         {Alice}, {}, FolderIds)

\* Clients creating and rewriting snippets while the clock runs; the payloads
\* carry timestamps of their own, zero or ahead of the clock.
TimeInputs ==
  Inputs({"POST", "PUT"}, {<<"snippets">>, <<"snippets", "s1">>},
         {Bearer(GoodToken)}, FALSE,
         {[Body("t2", "c1", "u1", NULL, tl) EXCEPT !.created_at = c, !.updated_at = c] :
            tl \in {<<>>, <<"b">>}, c \in {0, MaxClock + 1}},
         {}, {}, {}, {})

\* Two users creating folders, under their own folders or under the other's.
Bob == [username |-> "bob", email |-> "bob@example.com", password |-> "hunter2"]
OwnerInputs ==
  Inputs({"POST", "GET"},
         {<<"register">>, <<"folders">>} \cup {<<"folders", "user", u>> : u \in UserIds},
         {Bearer(GoodToken)}, FALSE, {},
         {[NoFolder EXCEPT !.name = "n", !.user_id = u, !.parent_id = p] :
            u \in UserIds, p \in {NULL} \cup FolderIds},
         {Alice, Bob}, {}, FolderIds)

\* Clients rewriting the one stored snippet at the same time, each with a
\* title and a tag list of its own.
RaceInputs ==
  Inputs({"PUT"}, {<<"snippets", "s1">>}, {Bearer(GoodToken)}, FALSE,
         {Body(t, "c1", "u1", NULL, tl) :
            t \in {"t2", "t3"}, tl \in {<<>>, <<"a">>, <<"b">>}},
         {}, {}, {}, {})

\* Clients reading the stored snippet while others rewrite it; each rewrite
\* has a title and a tag list found in no other.
ReadInputs ==
  Inputs({"GET", "PUT"}, {<<"snippets">>, <<"snippets", "s1">>}, {Bearer(GoodToken)}, FALSE,
         {Body("t2", "c1", "u1", NULL, <<"b">>), Body("t3", "c1", "u1", NULL, <<>>)},
         {}, {}, {}, {})

\* Clients creating folders at the same time, each naming no parent or any
\* folder id as parent.
ForestInputs ==
  Inputs({"POST"}, {<<"folders">>}, {Bearer(GoodToken)}, FALSE, {},
         {[NoFolder EXCEPT !.name = "n", !.user_id = "u1", !.parent_id = p] :
            p \in {NULL} \cup FolderIds},
         {}, {}, {})

\* Clients registering and logging in.
UserInputs ==
  Inputs({"POST"}, {<<"register">>, <<"login">>}, {NoHeader}, TRUE,
         {}, {},
         {[username |-> u, email |-> e, password |-> p] :
            u \in {"alice", "bob"}, e \in {"alice@example.com", "bob@example.com"},
            p \in {"pw123", "hunter2"}},
         {[username |-> u, password |-> p] :
            u \in {"alice", "bob"}, p \in {"pw123", "hunter2", ""}},
         {})

\* Concurrent writers of one snippet and of shared tag names.
ConcInputs ==
  Inputs({"POST", "PUT", "DELETE"},
         {<<"snippets">>, <<"snippets", "s1">>} \cup {<<"tags", "s1", n>> : n \in TagNames},
         {Bearer(GoodToken)}, FALSE,
         {Body("t2", "c1", "u1", NULL, tl) : tl \in TagLists},
         {}, {}, {}, {})

\* ------------------------------------------------------------------- specs
Init ==
  /\ users = {}
  /\ snippets = {}
  /\ tags = {}
  /\ snippet_tags = {}
  /\ folders = {}
  /\ usedIds = {}
  /\ clock = 0
  /\ pc = [w \in Workers |-> "idle"]
  /\ req = [w \in Workers |-> NoReq]
  /\ arg = [w \in Workers |-> NoArg]
  /\ loc = [w \in Workers |-> NoLoc]
  /\ tx = [w \in Workers |-> NoTx]
  /\ served = 0

\* A store that holds one user and one snippet tagged "a": what Register and
\* createSnippet leave behind.
InitConc ==
  /\ users = {[id |-> "u1", username |-> "alice", email |-> "alice@example.com",
               password |-> GenerateFromPassword("")]}
  /\ snippets = {NewRow([Body("t1", "c1", "u1", NULL, <<"a">>) EXCEPT !.id = "s1"], 0)}
  /\ tags = {[id |-> 1, name |-> "a"]}
  /\ snippet_tags = {[snippet_id |-> "s1", tag_id |-> 1]}
  /\ folders = {}
  /\ usedIds = {"u1", "s1"}
  /\ clock = 0
  /\ pc = [w \in Workers |-> "idle"]
  /\ req = [w \in Workers |-> NoReq]
  /\ arg = [w \in Workers |-> NoArg]
  /\ loc = [w \in Workers |-> NoLoc]
  /\ tx = [w \in Workers |-> NoTx]
  /\ served = 0

\* The storage operations, one action per statement.
SnippetWrites(w) ==
  \/ CreateInsert(w) \/ CreateUpsert(w) \/ CreateAssoc(w) \/ CreateCommit(w)
  \/ UpdateBegin(w) \/ UpdateRow(w) \/ UpdateDelete(w) \/ UpdateSelect(w) \/ UpdateInsert(w)
  \/ UpdateAssoc(w) \/ UpdateCommit(w)
  \/ AddTagUpsert(w) \/ AddTagAssoc(w) \/ AddTagCommit(w)
  \/ Delete(w) \/ RemoveTag(w)
SnippetReads(w) == GetRow(w) \/ GetTags(w) \/ GetAllRows(w) \/ GetAllTags(w)
UserOps(w) == CreateUser(w) \/ Login(w)
FolderOps(w) ==
  \/ CreateFolder(w) \/ GetFoldersByUser(w)
  \/ ContentsRows(w) \/ ContentsTags(w) \/ ContentsFolders(w)

\* One request at a time: a request is taken only while no other is in progress.
Alone(w) == \A v \in Others(w) : pc[v] = "idle"

\* Requests served one after the other.
Next ==
  \E w \in Workers :
    \/ Alone(w) /\ Serve(w, StoreInputs, NoLimit)
    \/ SnippetWrites(w) \/ SnippetReads(w) \/ CreateUser(w)
    \/ Finish(w)

\* Writers of one snippet and of its tags, interleaved statement by statement.
NextConc ==
  \E w \in Workers : Serve(w, ConcInputs, MaxRequests) \/ SnippetWrites(w) \/ Finish(w)

\* Every kind of request, one at a time.
NextHttp ==
  \E w \in Workers :
    \/ Alone(w) /\ Serve(w, HttpInputs, NoLimit)
    \/ SnippetWrites(w) \/ SnippetReads(w) \/ UserOps(w) \/ FolderOps(w)
    \/ Finish(w)

\* Registrations and logins, concurrently.
NextUsers ==
  \E w \in Workers : Serve(w, UserInputs, NoLimit) \/ UserOps(w) \/ Finish(w)

\* AddTag transactions only, interleaved statement by statement.
NextAttach ==
  \E w \in Workers :
    \/ Serve(w, AttachInputs, NoLimit)
    \/ AddTagUpsert(w) \/ AddTagAssoc(w) \/ AddTagCommit(w)
    \/ Finish(w)

NextFolders ==
  \E w \in Workers :
    \/ Alone(w) /\ Serve(w, FolderInputs, NoLimit)
    \/ CreateInsert(w) \/ CreateUpsert(w) \/ CreateAssoc(w) \/ CreateCommit(w)
    \/ GetAllRows(w) \/ GetAllTags(w) \/ CreateUser(w)
    \/ CreateFolder(w)
    \/ ContentsRows(w) \/ ContentsTags(w) \/ ContentsFolders(w)
    \/ Finish(w)

NextTime ==
  \/ Tick
  \/ \E w \in Workers :
       \/ Serve(w, TimeInputs, MaxRequests)
       \/ CreateInsert(w) \/ CreateUpsert(w) \/ CreateAssoc(w) \/ CreateCommit(w)
       \/ UpdateBegin(w) \/ UpdateRow(w) \/ UpdateDelete(w) \/ UpdateSelect(w)
       \/ UpdateInsert(w) \/ UpdateAssoc(w) \/ UpdateCommit(w)
       \/ Finish(w)

NextOwners ==
  \E w \in Workers :
    \/ Alone(w) /\ Serve(w, OwnerInputs, NoLimit)
    \/ CreateUser(w) \/ CreateFolder(w) \/ GetFoldersByUser(w)
    \/ ContentsRows(w) \/ ContentsFolders(w)
    \/ Finish(w)

UpdateOps(w) ==
  \/ UpdateBegin(w) \/ UpdateRow(w) \/ UpdateDelete(w) \/ UpdateSelect(w)
  \/ UpdateInsert(w) \/ UpdateAssoc(w) \/ UpdateCommit(w)

NextRace ==
  \E w \in Workers :
    \/ Serve(w, RaceInputs, NoLimit)
    \/ UpdateOps(w)
    \/ Finish(w)

NextRead ==
  \E w \in Workers :
    \/ Serve(w, ReadInputs, MaxRequests)
    \/ UpdateOps(w) \/ SnippetReads(w)
    \/ Finish(w)

NextForest ==
  \E w \in Workers :
    \/ Serve(w, ForestInputs, NoLimit)
    \/ CreateFolder(w)
    \/ Finish(w)

Spec == Init /\ [][Next]_vars
SpecTime == InitConc /\ [][NextTime]_vars
SpecFolders == Init /\ [][NextFolders]_vars
SpecHttp == Init /\ [][NextHttp]_vars
SpecUsers == Init /\ [][NextUsers]_vars
SpecConc == InitConc /\ [][NextConc]_vars
SpecAttach == InitConc /\ [][NextAttach]_vars
SpecOwners == Init /\ [][NextOwners]_vars
SpecRace == InitConc /\ [][NextRace]_vars
SpecRead == InitConc /\ [][NextRead]_vars
SpecForest == InitConc /\ [][NextForest]_vars

\* ================================================================ properties
Done(w, op) == pc[w] = "done" /\ arg[w].op = op
\* The storage call of worker w returns in this step.
Returns(w, entries) == pc[w] \in entries /\ pc'[w] = "done"

\* C1: register followed by login round-trips.  Once POST /register with a
\* non-empty password p has answered 201 for username u, a login as u answers
\* 200 with that user exactly when it presents p, and 401 otherwise.
C1_RegisterLoginRoundTrip ==
  [][\A w, v \in Workers :
       (/\ Done(w, "Register") /\ req[w].status = 201
        /\ req[w].body.password # ""
        /\ Returns(v, {"Login"}) /\ loc'[v].err # "fault"
        /\ arg[v].user.username = req[w].body.username)
       => IF arg[v].user.password = req[w].body.password
          THEN /\ req'[v].status = 200
               /\ \E u \in loc'[v].out : u.username = req[w].body.username
          ELSE req'[v].status = 401]_vars

CreateSteps == {"Create", "Create_upsert", "Create_assoc", "Create_commit"}
UpdateSteps ==
  {"Update", "Update_row", "Update_delete", "Update_select", "Update_insert", "Update_assoc",
   "Update_commit"}
\* Worker w takes a step of the storage call it is in.
Steps(w, entries) == pc[w] \in entries /\ pc'[w] # pc[w]
HasRow(id) == \E r \in snippets : r.id = id
SameFields(r, s) ==
  /\ r.title = s.title /\ r.description = s.description /\ r.language = s.language
  /\ r.code = s.code /\ r.folder_id = s.folder_id

\* C2: Create is all-or-nothing.  No step of a Create changes the committed
\* tables except its successful commit: until then, and after any failing step,
\* the store is as before and holds neither the row nor an association of the
\* new snippet.  The successful commit adds the row together with one
\* association for every name of the tag list, and only tag rows of those names.
C2_CreateAllOrNothing ==
  [][\A w \in Workers :
       Steps(w, CreateSteps) =>
         LET s == arg[w].snippet
         IN IF pc'[w] = "done" /\ req'[w].status = 201
            THEN /\ \E r \in snippets' \ snippets : r.id = s.id
                 /\ Range(s.tags) \subseteq GetSnippetTags(s.id)'
                 /\ snippets \subseteq snippets' /\ tags \subseteq tags'
                 /\ snippet_tags \subseteq snippet_tags'
                 /\ \A t \in tags' \ tags : t.name \in Range(s.tags)
                 /\ \A a \in snippet_tags' \ snippet_tags : a.snippet_id = s.id
            ELSE /\ UNCHANGED dbVars
                 /\ ~\E r \in snippets' : r.id = s.id
                 /\ ~\E a \in snippet_tags' : a.snippet_id = s.id]_vars

\* A Create that failed after it had upserted a tag no committed row names:
\* the tag, the row and the associations are all absent.
C2_Witness ==
  \E w \in Workers :
    /\ Done(w, "createSnippet") /\ req[w].status = 500
    /\ loc[w].tagID # 0
    /\ \E n \in Range(arg[w].snippet.tags) : \A t \in tags : t.name # n
    /\ ~HasRow(arg[w].snippet.id)

\* C3: Update is all-or-nothing.  A step of Update that is not its successful
\* commit, a failing one included, leaves every committed table as it was;
\* the successful commit rewrites the fields and replaces the tag set in one
\* step, adding only tag rows.
C3_UpdateAllOrNothing ==
  [][\A w \in Workers :
       Steps(w, UpdateSteps) =>
         LET s == arg[w].snippet
         IN IF pc'[w] = "done" /\ req'[w].status = 200
            THEN /\ \A r \in snippets : r.id = s.id =>
                      \E q \in snippets' : q.id = s.id /\ SameFields(q, s)
                 /\ \A r \in snippets : r.id # s.id => r \in snippets'
                 /\ GetSnippetTags(s.id)' = Range(s.tags)
                 /\ tags \subseteq tags'
                 /\ \A a \in snippet_tags : a.snippet_id # s.id => a \in snippet_tags'
            ELSE UNCHANGED dbVars]_vars

\* An Update of a tagged snippet failed after its UPDATE, its DELETE and a tag
\* INSERT: the old title and the old tags are still there.
C3_Witness ==
  \E w \in Workers :
    /\ Done(w, "updateSnippet") /\ req[w].status = 500
    /\ loc[w].tagID # 0
    /\ \E r \in snippets : r.id = arg[w].id /\ r.title # arg[w].snippet.title
    /\ GetSnippetTags(arg[w].id) # {}
    /\ \E n \in Range(arg[w].snippet.tags) : n \notin GetSnippetTags(arg[w].id)

\* C4: replace-all law.  After a successful Update of an existing snippet with
\* tag list T, the tags Get reads for it are exactly the names in T; none
\* when T is empty.
C4_ReplaceAll ==
  \A w \in Workers :
    (Done(w, "updateSnippet") /\ req[w].status = 200 /\ HasRow(arg[w].id))
      => GetSnippetTags(arg[w].id) = Range(arg[w].snippet.tags)

\* An Update with the empty list succeeded on a snippet while tags exist.
C4_Witness ==
  \E w \in Workers :
    /\ Done(w, "updateSnippet") /\ req[w].status = 200 /\ HasRow(arg[w].id)
    /\ arg[w].snippet.tags = <<>>
    /\ tags # {}

\* C5: Create/Get round trip.  A Create with an existing user id succeeds,
\* whatever its tag list and folder id, and Get then reads one row equal to the
\* payload in title, description, language, code, user id and folder id, with
\* the set of names of the payload's tag list.
C5_CreateGetRoundTrip ==
  \A w \in Workers :
    (/\ Done(w, "createSnippet") /\ req[w].calls = 1 /\ loc[w].err # "fault"
     /\ UserExists(arg[w].snippet.user_id))
      => LET s == arg[w].snippet
             got == {r \in snippets : r.id = s.id}
         IN /\ req[w].status = 201
            /\ Cardinality(got) = 1
            /\ \A r \in got : SameFields(r, s) /\ r.user_id = s.user_id
            /\ GetSnippetTags(s.id) = Range(s.tags)

\* A Create with a repeated tag name and a folder id succeeded.
C5_Witness ==
  \E w \in Workers :
    /\ Done(w, "createSnippet") /\ req[w].status = 201
    /\ arg[w].snippet.tags = <<"a", "a">>
    /\ arg[w].snippet.folder_id # NULL

\* C6: Update and Delete of an id that is not in the store answer 404 and
\* leave the store unchanged, whatever the body.
C6_MissingIdIs404 ==
  [][\A w \in Workers :
       (/\ Returns(w, UpdateSteps \cup {"Delete"})
        /\ loc'[w].err # "fault"
        /\ ~HasRow(arg[w].id))
       => req'[w].status = 404 /\ UNCHANGED dbVars]_vars

\* The handlers main wraps in JWTAuth.
Wrapped == {"HandleSnippet", "HandleSnippets", "HandleTags", "HandleFolders", "HandleUserFolders"}
Rejecting == {"NoHeader", "HeaderPresentNoToken", "TokenPresentInvalidOrExpired"}
\* Headers the gate is to reject: none, an empty bearer token, a value that is
\* no JWT, a JWT not signed with the process secret, an expired JWT.
Unauthorized(h) ==
  \/ h = NoHeader
  \/ h.scheme = "Bearer " /\ h.token.form = "empty"
  \/ h.scheme \notin {"Bearer ", ""}
  \/ h.token.form = "garbage"
  \/ h.token.form = "jwt" /\ h.token.key # jwtKey
  \/ h.token.form = "jwt" /\ h.token.expired
\* A bearer token signed with the process secret and not expired.
Authorized(h) ==
  /\ h.scheme = "Bearer " /\ h.token.form = "jwt" /\ h.token.alg \in HMAC
  /\ h.token.key = jwtKey /\ ~h.token.expired

\* C7: Auth Gate rejection.  A request to a wrapped route with no Authorization
\* header, an empty bearer token, a malformed token, a badly signed token or an
\* expired token is answered 401 and its handler is invoked zero times.
C7_GateRejects ==
  \A w \in Workers :
    (pc[w] # "idle" /\ req[w].handler \in Wrapped /\ Unauthorized(req[w].auth))
      => /\ pc[w] = "done"
         /\ req[w].status = 401
         /\ req[w].calls = 0
         /\ arg[w] = NoArg

\* A request with an expired token was answered 401 without its handler.
C7_Witness ==
  \E w \in Workers :
    /\ pc[w] = "done" /\ req[w].handler \in Wrapped
    /\ req[w].auth = Bearer(Jwt("HS256", jwtKey, TRUE))
    /\ req[w].status = 401 /\ req[w].calls = 0

\* C8: Auth Gate forwarding.  Every request to a wrapped route is in exactly
\* one of two terminal gate states: rejected (401, handler not invoked) or
\* forwarded (handler invoked exactly once, no 401 written); a request whose
\* bearer token is signed with the process secret and not expired is forwarded.
C8_GateForwards ==
  \A w \in Workers :
    (pc[w] # "idle" /\ req[w].handler \in Wrapped)
      => /\ req[w].gate \in Rejecting \cup {"TokenValid"}
         /\ req[w].gate \in Rejecting
              => pc[w] = "done" /\ req[w].calls = 0 /\ req[w].status = 401
         /\ req[w].gate = "TokenValid" => req[w].calls = 1 /\ req[w].status # 401
         /\ Authorized(req[w].auth) => req[w].gate = "TokenValid"

\* A request with a valid token was forwarded and its handler has called the storage.
C8_Witness ==
  \E w \in Workers :
    /\ pc[w] = "Update" /\ req[w].handler = "HandleSnippet"
    /\ Authorized(req[w].auth)
    /\ req[w].gate = "TokenValid" /\ req[w].calls = 1

\* C9: every route on snippets, tags, associations and folders is behind the
\* gate.  A request that is in, or has returned from, a storage operation on
\* those tables passed the gate in state TokenValid; a request the gate
\* rejected calls no storage operation and its step changes no table.
UserTableOps == {"Register", "Login"}
C9_RoutesGated ==
  /\ [](\A w \in Workers :
          /\ (arg[w].op # NULL /\ arg[w].op \notin UserTableOps)
               => req[w].gate = "TokenValid"
          /\ req[w].gate \in Rejecting
               => pc[w] = "done" /\ arg[w] = NoArg /\ tx[w] = NoTx)
  /\ [][\A w \in Workers :
          (pc[w] = "idle" /\ req'[w].gate \in Rejecting) => UNCHANGED dbVars]_vars

\* A folder is being created for a request that passed the gate.
C9_Witness ==
  \E w \in Workers :
    /\ pc[w] = "CreateFolder" /\ arg[w].op = "createFolder"
    /\ req[w].path = <<"folders">> /\ req[w].gate = "TokenValid"

\* C10: tag identity uniqueness.  Under every interleaving of Create, Update
\* and AddTag transactions the tags table holds at most one row per name, and
\* a committed row, with its id, is in every later state.
C10_TagIdentity ==
  /\ \A t, u \in tags : t.name = u.name => t.id = u.id
  /\ [][/\ \A t \in tags : t \in tags'
        /\ \A t, u \in tags' : t.name = u.name => t.id = u.id]_vars

\* Two transactions race for one new name: one has inserted it and not yet
\* committed, the other found no row and is about to insert it.
C10_Witness ==
  \E w, v \in Workers :
    /\ w # v
    /\ \E t \in tx[w].insTags : t.name = "b"
    /\ pc[v] = "Update_insert" /\ Tags(v)[loc[v].i] = "b"

\* C11: tag materialization never fails on a name collision.  The statement
\* that gets or creates a tag row in Create, Update or AddTag never ends its
\* transaction with a uniqueness error, whatever other transactions do.
MaterializeSteps == {"Create_upsert", "Update_select", "Update_insert", "AddTag"}
C11_MaterializeNeverCollides ==
  [][\A w \in Workers :
       Returns(w, MaterializeSteps) => loc'[w].err # "unique_violation"]_vars

AddTagSteps == {"AddTag", "AddTag_assoc", "AddTag_commit"}
TagRows(n) == {t \in tags : t.name = n}
\* The committed associations of snippet sid with the tag named n.
Pairs(sid, n) ==
  {a \in snippet_tags : a.snippet_id = sid /\ \E t \in TagRows(n) : t.id = a.tag_id}

\* C12: attach is idempotent.  An AddTag(s, t) on an existing snippet succeeds
\* unless the storage faults, whether or not (s, t) is attached already and
\* whether or not another AddTag runs beside it; it leaves one tag row for t
\* and one association (s, t), and when (s, t) was attached before, it leaves
\* the store unchanged.
C12_AttachIdempotent ==
  [][\A w \in Workers :
       Steps(w, AddTagSteps) =>
         IF pc'[w] = "done"
         THEN /\ (HasRow(arg[w].id) /\ loc'[w].err # "fault") => req'[w].status = 201
              /\ req'[w].status = 201
                   => /\ Cardinality(TagRows(arg[w].tag)') = 1
                      /\ Cardinality(Pairs(arg[w].id, arg[w].tag)') = 1
              /\ (req'[w].status # 201 \/ Pairs(arg[w].id, arg[w].tag) # {})
                   => UNCHANGED dbVars
         ELSE UNCHANGED dbVars]_vars

\* Two AddTag requests for the same new pair ran side by side and both answered 201.
C12_Witness ==
  /\ \A w \in Workers :
       /\ Done(w, "addTag") /\ req[w].status = 201
       /\ arg[w].id = "s1" /\ arg[w].tag = "b"
  /\ Cardinality(Pairs("s1", "b")) = 1

\* C13: detach of a pair that is not attached.  A RemoveTag(s, t) for which no
\* association (s, t) is stored, whether or not s has a row and whether or not
\* t has one, answers 204 unless the storage faults and changes no table.
C13_DetachAbsentPair ==
  [][\A w \in Workers :
       (Returns(w, {"RemoveTag"}) /\ Pairs(arg[w].id, arg[w].tag) = {})
         => /\ loc'[w].err # "fault" => req'[w].status = 204
            /\ UNCHANGED dbVars]_vars

\* A RemoveTag answered 204 for a snippet and a tag name that both have no row.
C13_Witness ==
  \E w \in Workers :
    /\ Done(w, "removeTag") /\ req[w].status = 204
    /\ ~HasRow(arg[w].id)
    /\ TagRows(arg[w].tag) = {}

\* C14: detach is local to one pair.  A RemoveTag(s, t) removes the
\* association (s, t) and nothing else: every other association, of t with
\* another snippet or of s with another tag, every snippet row and every tag
\* row, that of t included, stay as they were.
C14_DetachOnePair ==
  [][\A w \in Workers :
       Returns(w, {"RemoveTag"})
         => /\ snippet_tags' =
                 IF req'[w].status = 204
                 THEN snippet_tags \ Pairs(arg[w].id, arg[w].tag)
                 ELSE snippet_tags
            /\ UNCHANGED <<snippets, tags, users, folders>>]_vars

\* A RemoveTag(s, t) succeeded; t is still attached to another snippet and s
\* still has another tag.
C14_Witness ==
  \E w \in Workers :
    /\ Done(w, "removeTag") /\ req[w].status = 204
    /\ Pairs(arg[w].id, arg[w].tag) = {}
    /\ TagRows(arg[w].tag) # {}
    /\ \E x \in SnippetIds \ {arg[w].id} : Pairs(x, arg[w].tag) # {}
    /\ \E n \in TagNames \ {arg[w].tag} : Pairs(arg[w].id, n) # {}

\* C15: Delete cascades to associations, not to tags.  A successful Delete(s)
\* removes the row of s and every association of s and nothing else: the rows
\* and associations of the other snippets stay; and no step of any operation
\* removes a tag row or changes its id.
C15_DeleteCascade ==
  [][/\ \A t \in tags : t \in tags'
     /\ \A w \in Workers :
          (Returns(w, {"Delete"}) /\ req'[w].status = 204)
            => /\ snippets' = {r \in snippets : r.id # arg[w].id}
               /\ snippet_tags' = {a \in snippet_tags : a.snippet_id # arg[w].id}
               /\ tags' = tags]_vars

\* A tagged snippet was deleted while another snippet keeps its tags: the tag
\* rows are still there, one of them referenced by no association.
C15_Witness ==
  \E w \in Workers :
    /\ Done(w, "deleteSnippet") /\ req[w].status = 204
    /\ ~HasRow(arg[w].id)
    /\ \E x \in SnippetIds \ {arg[w].id} : HasRow(x) /\ GetSnippetTags(x) # {}
    /\ \E t \in tags : \A a \in snippet_tags : a.tag_id # t.id

\* C16: no response of /register or /login carries a password.  Whatever the
\* outcome, every user object in the response has no password field or an
\* empty one, and the message is one of the handlers' fixed texts.
UserMessages ==
  {"user", "Invalid request payload", "Failed to create user", "Invalid username",
   "Invalid password"}
C16_NoPasswordInResponse ==
  \A w \in Workers :
    (pc[w] = "done" /\ req[w].handler \in {"Register", "Login"})
      => /\ \A r \in loc[w].out : "password" \in DOMAIN r => r.password = ""
         /\ req[w].msg \in UserMessages

\* A login succeeded for a user whose row holds a hash, and answered with the user.
C16_Witness ==
  \E w \in Workers :
    /\ Done(w, "Login") /\ req[w].status = 200
    /\ \E u \in users, r \in loc[w].out :
         r.username = u.username /\ u.password = GenerateFromPassword("")

\* C17: login failures are indistinguishable.  A login with a username that
\* has no row and a login with a stored username and a wrong password are
\* answered with the same status and the same message.
C17_LoginFailuresAlike ==
  \A w, v \in Workers :
    (/\ Done(w, "Login") /\ loc[w].err = "user not found"
     /\ Done(v, "Login") /\ loc[v].err = "bcrypt mismatch")
      => req[w].status = req[v].status /\ req[w].msg = req[v].msg

\* C18: user uniqueness.  No two rows of users share a username or an email,
\* under every interleaving of registrations; a registration whose username or
\* email is taken fails with the uniqueness error, answers 500 and leaves the
\* users table unchanged.
C18_UserUniqueness ==
  /\ [](\A u, v \in users : (u.username = v.username \/ u.email = v.email) => u = v)
  /\ [][\A w \in Workers :
          (/\ Returns(w, {"CreateUser"}) /\ loc'[w].err # "fault"
           /\ \E v \in users : v.username = arg[w].user.username
                               \/ v.email = arg[w].user.email)
            => /\ loc'[w].err = "unique_violation" /\ req'[w].status = 500
               /\ UNCHANGED dbVars]_vars

\* Two registrations ran side by side with the same email and different
\* usernames: one was stored and the other failed.
C18_Witness ==
  \E w, v \in Workers :
    /\ Done(w, "Register") /\ req[w].status = 201
    /\ Done(v, "Register") /\ loc[v].err = "unique_violation"
    /\ arg[w].user.email = arg[v].user.email
    /\ arg[w].user.username # arg[v].user.username
    /\ Cardinality(users) = 1

\* C19: GetFolderContents(f) returns exactly the direct children of f: the
\* snippets whose folder id is f, each with its current tag set, and the folders
\* whose parent id is f; nothing from deeper levels.
DirectChildren(f) ==
  [snippets |-> {[row |-> r, tags |-> GetSnippetTags(r.id)] :
                   r \in {x \in snippets : x.folder_id = f}},
   folders |-> {g \in folders : g.parent_id = f}]
C19_DirectChildrenOnly ==
  \A w \in Workers :
    Done(w, "getFolderContents") /\ loc[w].err = "nil"
      => loc[w].out = {DirectChildren(arg[w].id)}
\* A folder listed with its one snippet and its one subfolder, while a second
\* snippet sits in the subfolder and a third folder below it.
C19_Witness ==
  \E w \in Workers :
    /\ Done(w, "getFolderContents") /\ loc[w].err = "nil"
    /\ \E c \in loc[w].out :
         /\ Cardinality(c.snippets) = 1
         /\ \E g \in folders :
              /\ c.folders = {g}
              /\ \E r \in snippets : r.folder_id = g.id
              /\ \E h \in folders : h.parent_id = g.id

\* C20: a snippet's stored CreatedAt never changes after Create; Create stores
\* instants of the server's clock whatever timestamps the payload carries; and
\* every write of a stored snippet leaves its UpdatedAt no earlier than it was
\* and no earlier than its CreatedAt.  (The claim says "later than before"; the
\* clock here has finitely many instants, so two writes within one instant are
\* not held against the code.)
Stored(id) == CHOOSE r \in snippets : r.id = id
C20_SnippetTimestamps ==
  [][\A id \in SnippetIds :
       /\ HasRow(id) /\ HasRow(id)' =>
            /\ Stored(id)'.created_at = Stored(id).created_at
            /\ Stored(id)'.updated_at >= Stored(id).updated_at
            /\ Stored(id)'.updated_at >= Stored(id)'.created_at
       /\ ~HasRow(id) /\ HasRow(id)' =>
            /\ Stored(id)'.created_at \in 0..clock
            /\ Stored(id)'.updated_at \in Stored(id)'.created_at..clock]_vars

\* C21: every folder with a parent references a folder that exists and is owned
\* by the same user, and a CreateFolder whose parent is missing or belongs to
\* another user fails and leaves the folders table unchanged.
ParentOf(f) == {g \in folders : g.id = f.parent_id}
C21_ParentSameOwner ==
  /\ [](\A f \in folders :
          f.parent_id # NULL => \E g \in ParentOf(f) : g.user_id = f.user_id)
  /\ [][\A w \in Workers :
          /\ Returns(w, {"CreateFolder"})
          /\ arg[w].folder.parent_id # NULL
          /\ ~\E g \in folders : /\ g.id = arg[w].folder.parent_id
                                 /\ g.user_id = arg[w].folder.user_id
          => loc'[w].err # "nil" /\ folders' = folders]_vars

\* C22: on every route, a request whose method is not one listed for the path
\* is answered 405 and invokes no repository operation.  (Stated for requests
\* that pass the gate and whose path identifiers parse, so that no 401 or 400
\* comes first.)
Listed(handler) ==
  CASE handler = "Register" -> {"POST"}
    [] handler = "Login" -> {"POST"}
    [] handler = "HandleSnippets" -> {"GET", "POST"}
    [] handler = "HandleSnippet" -> {"GET", "PUT", "DELETE"}
    [] handler = "HandleTags" -> {"POST", "DELETE"}
    [] handler = "HandleFolders" -> {"GET", "POST"}
    [] handler = "HandleUserFolders" -> {"GET"}
PathParses(handler, path) ==
  CASE handler = "HandleSnippet" -> Len(path) = 2 /\ UuidParses(path[2])
    [] handler = "HandleTags" -> Len(path) = 3 /\ UuidParses(path[2])
    [] handler = "HandleUserFolders" -> Len(path) = 3 /\ UuidParses(path[3])
    [] OTHER -> TRUE
C22_WrongMethodIs405 ==
  \A w \in Workers :
    (/\ pc[w] # "idle" /\ req[w].handler # NULL
     /\ req[w].gate \notin Rejecting
     /\ PathParses(req[w].handler, req[w].path)
     /\ req[w].method \notin Listed(req[w].handler))
      => pc[w] = "done" /\ req[w].status = 405 /\ arg[w] = NoArg

\* C23: concurrent Updates of one snippet are serialized.  Once two Updates of
\* the same snippet have both committed, under whatever interleaving, the
\* stored fields and the whole tag set are those of one and the same Update:
\* never the fields of one with the tags of the other, never both tag lists.
Committed(w, id) ==
  Done(w, "updateSnippet") /\ loc[w].err = "nil" /\ arg[w].id = id
WrittenBy(w, id) ==
  /\ SameFields(Stored(id), arg[w].snippet)
  /\ GetSnippetTags(id) = Range(arg[w].snippet.tags)
C23_UpdatesSerialized ==
  \A id \in SnippetIds :
    (HasRow(id) /\ \A w \in Workers : Committed(w, id))
      => \E w \in Workers : WrittenBy(w, id)
\* Two Updates of s1 with different titles and different tag lists have both
\* committed, and the store holds what one of them wrote.
C23_Witness ==
  \E w, v \in Workers :
    /\ w # v /\ Committed(w, "s1") /\ Committed(v, "s1")
    /\ arg[w].snippet.title # arg[v].snippet.title
    /\ Range(arg[w].snippet.tags) # Range(arg[v].snippet.tags)
    /\ Range(arg[w].snippet.tags) # {} /\ Range(arg[v].snippet.tags) # {}
    /\ WrittenBy(w, "s1") /\ ~WrittenBy(v, "s1")

\* C24: readers see only committed whole states.  Every snippet Get or GetAll
\* returns, whatever Update runs beside it, carries fields and a tag set that
\* were the snippet's committed value together at one instant: here title t1
\* with tag a (the stored snippet), or the title and the tag list of one and
\* the same rewrite.
Whole(e) ==
  \/ e.row.title = "t1" /\ e.tags = {"a"}
  \/ \E b \in ReadInputs.snippets : SameFields(e.row, b) /\ e.tags = Range(b.tags)
C24_ReadersSeeWholeStates ==
  \A w \in Workers :
    (pc[w] = "done" /\ arg[w].op \in {"getSnippet", "getSnippets"} /\ loc[w].err = "nil")
      => \A e \in loc[w].out : Whole(e)

\* C25: Update re-materializes its tag list with an idempotent attach.  An
\* Update of a stored snippet that meets no storage fault succeeds, also when
\* its list names a tag more than once, and leaves one association for each
\* name of the list.
C25_UpdateAttachIdempotent ==
  \A w \in Workers :
    (Done(w, "updateSnippet") /\ HasRow(arg[w].id) /\ loc[w].err # "fault")
      => /\ req[w].status = 200
         /\ \A n \in Range(arg[w].snippet.tags) :
              Cardinality(Pairs(arg[w].id, n)) = 1

\* C26: storage faults are reported as failures, distinct from not-found.  On
\* the snippet endpoints a storage fault is answered 500, and 404 is answered
\* only when the row is absent.
SnippetEndpoints ==
  {"getSnippet", "getSnippets", "createSnippet", "updateSnippet", "deleteSnippet"}
C26_FaultIsNot404 ==
  \A w \in Workers :
    (pc[w] = "done" /\ arg[w].op \in SnippetEndpoints)
      => /\ loc[w].err = "fault" => req[w].status = 500
         /\ req[w].status = 404 => ~HasRow(arg[w].id)

\* C27: the gate forwards only 'Bearer <token>'.  A request to a wrapped route
\* whose Authorization header does not start with "Bearer ", a valid token on
\* its own or under another scheme, is answered 401 and does not reach the
\* handler.
C27_BearerSchemeRequired ==
  \A w \in Workers :
    (/\ pc[w] # "idle" /\ req[w].handler \in Wrapped
     /\ req[w].auth # NoHeader /\ req[w].auth.scheme # "Bearer ")
      => pc[w] = "done" /\ req[w].status = 401 /\ req[w].calls = 0

\* C28: a failed attach leaves no trace.  No step of an AddTag for a snippet
\* id that is not stored changes a table, and the AddTag returns an error: no
\* tag row stays behind for its name.  A Create that fails after it upserted
\* tags likewise changes no table and leaves nothing pending.
C28_FailedAttachLeavesNoTrace ==
  [][\A w \in Workers :
       /\ (Steps(w, AddTagSteps) /\ ~HasRow(arg[w].id))
            => /\ UNCHANGED dbVars
               /\ pc'[w] = "done" => loc'[w].err # "nil" /\ tx'[w] = NoTx
       /\ (Returns(w, CreateSteps) /\ loc'[w].err # "nil" /\ tx[w].insTags # {})
            => UNCHANGED dbVars /\ tx'[w] = NoTx]_vars
\* An AddTag of a name no tag row has, for a snippet that is not stored, has
\* failed on the foreign key, and no tag row has that name.
C28_Witness ==
  \E w \in Workers :
    /\ Done(w, "addTag") /\ loc[w].err = "fk_violation"
    /\ ~HasRow(arg[w].id)
    /\ TagRows(arg[w].tag) = {}

\* C29: invalid input is rejected at the boundary with no effect.  A request
\* that passed the gate and carries an unparsable snippet, folder or user id in
\* its path or query, or a create or update body that is malformed JSON or has
\* an empty code field, is answered 400 and calls no repository operation; the
\* step that answers 400 changes no table.
Decodes(r) ==
  \/ r.handler = "HandleSnippets" /\ r.method = "POST"
  \/ r.handler = "HandleSnippet" /\ r.method = "PUT" /\ PathParses(r.handler, r.path)
  \/ r.handler = "HandleFolders" /\ r.method = "POST"
InvalidInput(r) ==
  \/ /\ r.handler \in {"HandleSnippet", "HandleTags", "HandleUserFolders"}
     /\ ~PathParses(r.handler, r.path)
  \/ r.handler = "HandleFolders" /\ r.method = "GET" /\ ~UuidParses(r.body.id)
  \/ Decodes(r) /\ r.body = Malformed
  \/ /\ Decodes(r) /\ r.handler # "HandleFolders" /\ r.body # Malformed
     /\ r.body.code = ""
C29_InvalidInputIs400 ==
  /\ [](\A w \in Workers :
          (pc[w] # "idle" /\ req[w].gate = "TokenValid" /\ InvalidInput(req[w]))
            => pc[w] = "done" /\ req[w].status = 400 /\ arg[w] = NoArg /\ tx[w] = NoTx)
  /\ [][\A w \in Workers :
          (pc[w] = "idle" /\ req'[w].status = 400) => UNCHANGED dbVars]_vars
\* A create request with a valid token and an empty code field was answered 400
\* while the store holds a user.
C29_Witness ==
  \E w \in Workers :
    /\ pc[w] = "done" /\ req[w].gate = "TokenValid"
    /\ req[w].handler = "HandleSnippets" /\ req[w].method = "POST"
    /\ req[w].body # Malformed /\ req[w].body.code = ""
    /\ req[w].status = 400 /\ arg[w] = NoArg
    /\ users # {}

\* C30: no circular wait between composite writes.  In no reachable state are
\* two concurrent Create or Update transactions whose tag lists share two names
\* in opposite orders both waiting, at their next statement, for a tag row, a
\* unique name or another lock that the other one holds until its commit.
Waiting(w) ==
  CASE pc[w] = "Create_upsert" -> UpsertTagWaits(w, Tags(w)[loc[w].i])
    [] pc[w] = "AddTag" -> UpsertTagWaits(w, arg[w].tag)
    [] pc[w] = "Update_row" -> UpdateSnippetWaits(w, arg[w].snippet.id)
    [] pc[w] = "Update_delete" -> DeleteAssocWaits(w, arg[w].snippet.id)
    [] pc[w] = "Update_insert" -> InsertTagWaits(w, Tags(w)[loc[w].i])
    [] pc[w] \in {"Create_assoc", "Update_assoc"} ->
         AssocWaits(w, arg[w].snippet.id, loc[w].tagID)
    [] pc[w] = "AddTag_assoc" -> AssocWaits(w, arg[w].id, loc[w].tagID)
    [] OTHER -> FALSE
\* Two names occur in s in one order and in t in the other.
OppositeOrder(s, t) ==
  \E i, j \in DOMAIN s, k, l \in DOMAIN t :
    i < j /\ k < l /\ s[i] # s[j] /\ s[i] = t[l] /\ s[j] = t[k]
C30_NoCircularWait ==
  \A w, v \in Workers :
    (/\ w # v
     /\ pc[w] \in CreateSteps \cup UpdateSteps /\ pc[v] \in CreateSteps \cup UpdateSteps
     /\ OppositeOrder(Tags(w), Tags(v)))
      => ~(Waiting(w) /\ Waiting(v))

\* C31: the folder hierarchy stays a forest.  From every folder the parent
\* links lead to a root (null parent) through folders that exist, in at most as
\* many steps as there are folders, so no folder is its own ancestor; every
\* folder id is held by one row; and no step removes or changes a folder.
RECURSIVE ReachesRoot(_, _)
ReachesRoot(id, n) ==
  IF id = NULL THEN TRUE
  ELSE IF n = 0 THEN FALSE
  ELSE \E g \in folders : g.id = id /\ ReachesRoot(g.parent_id, n - 1)
C31_FolderForest ==
  /\ [](/\ \A f \in folders : ReachesRoot(f.id, Cardinality(folders))
        /\ \A f, g \in folders : f.id = g.id => f = g)
  /\ [][folders \subseteq folders']_vars
\* Three folders in a chain: a root, a folder under it and a third under that
\* one, whose create has just succeeded.
C31_Witness ==
  \E f, g, h \in folders :
    /\ f.parent_id = NULL /\ g.parent_id = f.id /\ h.parent_id = g.id
    /\ Cardinality({f.id, g.id, h.id}) = 3
    /\ \E w \in Workers :
         Done(w, "createFolder") /\ loc[w].err = "nil" /\ arg[w].folder.id = h.id
====
